---- MODULE Spec2Model ----
(***************************************************************************)
(* ETF auto-invest: the portfolio allocator (modules/portfolio_allocator), *)
(* the trading strategy that drives it (modules/strategy) and the          *)
(* scheduled jobs that call the strategy (main).                           *)
(*                                                                         *)
(* Money amounts are Python floats in the source.  The model keeps them as *)
(* exact fractions [n, d] in lowest terms; every amount used here is far   *)
(* below 2^53.  Prices and balances are the integers the KIS client parses *)
(* out of the broker's answers (int(...)), in KRW.                         *)
(***************************************************************************)
EXTENDS Integers, Sequences, FiniteSets, TLC

VARIABLES
    cfg,              \* the parsed config.yaml (STRATEGY, ETF_LIST, CATEGORY_LIMITS, ADVANCED)
    active_etfs,      \* PortfolioAllocator.active_etfs
    high_52w_cache,   \* TradingStrategy.high_52w_cache: code -> 52-week high
    pc,               \* position of the scheduled job that is running
    mode,             \* "REGULAR" | "DIP" | "NONE": the decision run in progress
    entry_etfs,       \* allocator.active_etfs as it was when the run started
    balance,          \* <<b>>: get_balance returned b to this run; <<>>: not called
    opportunities,    \* result of check_dip_opportunity
    current_prices,   \* code -> current price, the price map of this run
    allocations,      \* result of calculate_allocation
    buy_orders,       \* result of calculate_buy_quantities
    total_remainder,  \* the total remainder left when calculate_buy_quantities returns
    idx,              \* position of the loop of _execute_buy_orders
    counts,           \* success_count and fail_count of _execute_buy_orders
    submitted,        \* the calls of api.buy_order made by this run, in order
    sent,             \* the Discord notifications sent by this run, in order
    recorded,         \* the rows csv.add_trade appended during this run
    outcome,          \* how the last run ended
    price_data        \* DetectSpec: what get_domestic_etf_price answered, code by
                      \* code, to the last sweep over active_etfs

vars == <<cfg, active_etfs, high_52w_cache, pc, mode, entry_etfs, balance,
          opportunities, current_prices, allocations, buy_orders,
          total_remainder, idx, counts, submitted, sent, recorded, outcome,
          price_data>>

(***************************************************************************)
(* Exact fractions standing for the floats of the source.                  *)
(***************************************************************************)
RECURSIVE GCD(_, _)
GCD(a, b) == IF b = 0 THEN a ELSE GCD(b, a % b)

Abs(x) == IF x < 0 THEN -x ELSE x

\* n / d in lowest terms with a positive denominator (d # 0)
Rat(n, d) ==
    LET s == IF d < 0 THEN -1 ELSE 1
        g == GCD(Abs(n), Abs(d))
    IN  [n |-> (s * n) \div g, d |-> (s * d) \div g]

FromInt(i) == [n |-> i, d |-> 1]
RZero == FromInt(0)
RAdd(a, b) == Rat(a.n * b.d + b.n * a.d, a.d * b.d)
RSub(a, b) == Rat(a.n * b.d - b.n * a.d, a.d * b.d)
RMul(a, b) == Rat(a.n * b.n, a.d * b.d)
RDiv(a, b) == Rat(a.n * b.d, a.d * b.n)          \* b # 0
RLt(a, b) == a.n * b.d < b.n * a.d
RLe(a, b) == a.n * b.d <= b.n * a.d

\* Python int(x): truncation toward zero
PyInt(r) == IF r.n >= 0 THEN r.n \div r.d ELSE -((-r.n) \div r.d)

RECURSIVE RSum(_)
RSum(s) == IF s = <<>> THEN RZero ELSE RAdd(Head(s), RSum(Tail(s)))

RECURSIVE ISum(_)
ISum(s) == IF s = <<>> THEN 0 ELSE Head(s) + ISum(Tail(s))

(***************************************************************************)
(* Python helpers: dict.get, results and exceptions, sorted.               *)
(***************************************************************************)
\* d.get(k, default)
Get(d, k, default) == IF k \in DOMAIN d THEN d[k] ELSE default

Ok(v) == [ok |-> TRUE, val |-> v]
Raise(e) == [ok |-> FALSE, err |-> e]

\* InsertByPriority placing an element before the elements of its own priority
InsertBeforeEqual(s, x) ==
    LET k == Cardinality({i \in 1..Len(s) : s[i].priority < x.priority})
    IN  SubSeq(s, 1, k) \o <<x>> \o SubSeq(s, k + 1, Len(s))

\* sorted(s, key=lambda x: x['priority']) is stable: an element goes after
\* every element already placed whose priority is not greater
InsertByPriority(s, x) ==
    LET k == Cardinality({i \in 1..Len(s) : s[i].priority <= x.priority})
    IN  SubSeq(s, 1, k) \o <<x>> \o SubSeq(s, k + 1, Len(s))

RECURSIVE SortPrefix(_, _)
SortPrefix(s, n) ==
    IF n = 0 THEN <<>> ELSE InsertByPriority(SortPrefix(s, n - 1), s[n])

sorted_by_priority(s) == SortPrefix(s, Len(s))

Map(s, F(_)) == [i \in 1..Len(s) |-> F(s[i])]

(***************************************************************************)
(* PortfolioAllocator                                                      *)
(* An instrument of ETF_LIST is a record with the keys the configuration   *)
(* gives it (code always; category, weight, custom_ratio, priority and     *)
(* enabled are optional, read with dict.get).  The name is display text    *)
(* and is left out; custom_ratio and max_allocation are kept in percent.   *)
(***************************************************************************)
DefaultWeight == 1
DefaultPriority == 999
DefaultCustomRatio == 0
DefaultCategory == "UNKNOWN"

\* [etf for etf in self.etf_list if etf.get('enabled', True)]
EnabledEtfs(etf_list) == SelectSeq(etf_list, LAMBDA e : Get(e, "enabled", TRUE))

\* equal_allocation with the ratio taken by whole-number division (1 // count)
equal_allocation_floor_ratio(etfs, total_amount) ==
    LET count == Len(etfs)
        line(etf) == [code             |-> etf.code,
                      category         |-> Get(etf, "category", DefaultCategory),
                      allocated_amount |-> Rat(total_amount, count),
                      ratio            |-> FromInt(1 \div count),
                      priority         |-> Get(etf, "priority", DefaultPriority)]
    IN  IF count = 0
        THEN Raise("ZeroDivisionError")
        ELSE Ok(sorted_by_priority(Map(etfs, line)))

equal_allocation(etfs, total_amount) ==
    LET count == Len(etfs)
        line(etf) == [code             |-> etf.code,
                      category         |-> Get(etf, "category", DefaultCategory),
                      allocated_amount |-> Rat(total_amount, count),
                      ratio            |-> Rat(1, count),
                      priority         |-> Get(etf, "priority", DefaultPriority)]
    IN  IF count = 0
        THEN Raise("ZeroDivisionError")           \* total_amount / count
        ELSE Ok(sorted_by_priority(Map(etfs, line)))

\* category_totals[cat] of _apply_category_limits
CategoryTotal(allocs, cat) ==
    RSum(Map(SelectSeq(allocs, LAMBDA a : a.category = cat),
             LAMBDA a : a.allocated_amount))

apply_category_limits(allocs, category_limits, total_amount) ==
    IF DOMAIN category_limits = {}
    THEN allocs
    ELSE LET adjust(alloc) ==
                 LET limits    == Get(category_limits, alloc.category, <<>>)
                     \* None and 0 are both false in "if max_limit:"
                     max_limit == Get(limits, "max_allocation", 0)
                     cat_ratio == RDiv(CategoryTotal(allocs, alloc.category),
                                       FromInt(total_amount))
                     scale_factor == RDiv(Rat(max_limit, 100), cat_ratio)
                 IN  IF max_limit # 0 /\ RLt(Rat(max_limit, 100), cat_ratio)
                     THEN [alloc EXCEPT
                             !.allocated_amount = RMul(@, scale_factor),
                             !.ratio = RMul(@, scale_factor)]
                     ELSE alloc
         IN  Map(allocs, adjust)

\* weighted_allocation adding up only the weights that are written out in
\* the configuration (an instrument without a weight counts 1 in its own
\* ratio but 0 in the total)
weighted_allocation_declared_total(etfs, category_limits, total_amount) ==
    LET total_weight == ISum(Map(etfs, LAMBDA e : Get(e, "weight", 0)))
        line(etf) ==
            LET weight == Get(etf, "weight", DefaultWeight)
                ratio  == Rat(weight, total_weight)
            IN  [code             |-> etf.code,
                 category         |-> Get(etf, "category", DefaultCategory),
                 allocated_amount |-> RMul(FromInt(total_amount), ratio),
                 ratio            |-> ratio,
                 priority         |-> Get(etf, "priority", DefaultPriority)]
    IN  IF etfs # <<>> /\ total_weight = 0
        THEN Raise("ZeroDivisionError")
        ELSE Ok(sorted_by_priority(
                  apply_category_limits(Map(etfs, line), category_limits,
                                        total_amount)))

weighted_allocation(etfs, category_limits, total_amount) ==
    LET total_weight == ISum(Map(etfs, LAMBDA e : Get(e, "weight", DefaultWeight)))
        line(etf) ==
            LET weight == Get(etf, "weight", DefaultWeight)
                ratio  == Rat(weight, total_weight)
            IN  [code             |-> etf.code,
                 category         |-> Get(etf, "category", DefaultCategory),
                 allocated_amount |-> RMul(FromInt(total_amount), ratio),
                 ratio            |-> ratio,
                 priority         |-> Get(etf, "priority", DefaultPriority)]
    IN  IF etfs # <<>> /\ total_weight = 0
        THEN Raise("ZeroDivisionError")           \* weight / total_weight
        ELSE Ok(sorted_by_priority(
                  apply_category_limits(Map(etfs, line), category_limits,
                                        total_amount)))

\* custom_allocation using the configured ratios as they are
custom_allocation_unnormalised(etfs, total_amount) ==
    LET total_ratio == ISum(Map(etfs, LAMBDA e : Get(e, "custom_ratio", DefaultCustomRatio)))
        line(etf) ==
            LET ratio == Rat(Get(etf, "custom_ratio", DefaultCustomRatio), 100)
            IN  [code             |-> etf.code,
                 category         |-> Get(etf, "category", DefaultCategory),
                 allocated_amount |-> RMul(FromInt(total_amount), ratio),
                 ratio            |-> ratio,
                 priority         |-> Get(etf, "priority", DefaultPriority)]
    IN  IF etfs # <<>> /\ total_ratio = 0
        THEN Raise("ZeroDivisionError")
        ELSE Ok(sorted_by_priority(Map(etfs, line)))

custom_allocation(etfs, total_amount) ==
    LET total_ratio == ISum(Map(etfs, LAMBDA e : Get(e, "custom_ratio", DefaultCustomRatio)))
        line(etf) ==
            LET ratio == Rat(Get(etf, "custom_ratio", DefaultCustomRatio), total_ratio)
            IN  [code             |-> etf.code,
                 category         |-> Get(etf, "category", DefaultCategory),
                 allocated_amount |-> RMul(FromInt(total_amount), ratio),
                 ratio            |-> ratio,
                 priority         |-> Get(etf, "priority", DefaultPriority)]
    IN  IF etfs # <<>> /\ total_ratio = 0
        THEN Raise("ZeroDivisionError")           \* custom_ratio / total_ratio
        ELSE Ok(sorted_by_priority(Map(etfs, line)))

calculate_regular_allocation(etfs, config, total_amount) ==
    LET allocation_method == Get(config.STRATEGY, "allocation_method", "EQUAL")
    IN  CASE allocation_method = "EQUAL"    -> equal_allocation(etfs, total_amount)
          [] allocation_method = "WEIGHTED" ->
                 weighted_allocation(etfs, config.CATEGORY_LIMITS, total_amount)
          [] allocation_method = "CUSTOM"   -> custom_allocation(etfs, total_amount)
          [] OTHER -> Raise("ValueError")

calculate_dip_allocation(etfs, config, total_amount) ==
    LET dip_method == Get(config.STRATEGY, "dip_allocation_method", "FOCUS")
    IN  CASE dip_method = "FOCUS"    -> equal_allocation(etfs, total_amount)
          [] dip_method = "EQUAL"    -> equal_allocation(etfs, total_amount)
          [] dip_method = "WEIGHTED" ->
                 weighted_allocation(etfs, config.CATEGORY_LIMITS, total_amount)
          [] OTHER -> equal_allocation(etfs, total_amount)

calculate_allocation(etfs, config, total_amount, m) ==
    CASE m = "REGULAR" -> calculate_regular_allocation(etfs, config, total_amount)
      [] m = "DIP"     -> calculate_dip_allocation(etfs, config, total_amount)
      [] OTHER -> Raise("ValueError")

\* RedistributeFrom with the amount spent not taken off the total remainder
RECURSIVE RedistributeNoDebit(_, _, _)
RedistributeNoDebit(orders, i, tr) ==
    IF i > Len(orders)
    THEN [buy_orders |-> orders, total_remainder |-> tr]
    ELSE LET price == orders[i].current_price
         IN  IF RLt(tr, FromInt(price))
             THEN [buy_orders |-> orders, total_remainder |-> tr]
             ELSE LET additional_qty == PyInt(RDiv(tr, FromInt(price)))
                      additional_amount == additional_qty * price
                  IN  IF additional_qty > 0
                      THEN RedistributeNoDebit(
                               [orders EXCEPT
                                  ![i].quantity = @ + additional_qty,
                                  ![i].actual_amount = @ + additional_amount],
                               i + 1, tr)
                      ELSE RedistributeNoDebit(orders, i + 1, tr)

\* RedistributeFrom going on to the next order ("continue") where the source
\* leaves the loop ("break")
RECURSIVE RedistributeSkipping(_, _, _)
RedistributeSkipping(orders, i, tr) ==
    IF i > Len(orders)
    THEN [buy_orders |-> orders, total_remainder |-> tr]
    ELSE LET price == orders[i].current_price
         IN  IF RLt(tr, FromInt(price))
             THEN RedistributeSkipping(orders, i + 1, tr)
             ELSE LET additional_qty == PyInt(RDiv(tr, FromInt(price)))
                      additional_amount == additional_qty * price
                  IN  IF additional_qty > 0
                      THEN RedistributeSkipping(
                               [orders EXCEPT
                                  ![i].quantity = @ + additional_qty,
                                  ![i].actual_amount = @ + additional_amount],
                               i + 1,
                               RSub(tr, FromInt(additional_amount)))
                      ELSE RedistributeSkipping(orders, i + 1, tr)

\* the loop of _redistribute_remainder from order i on, with total_remainder tr
RECURSIVE RedistributeFrom(_, _, _)
RedistributeFrom(orders, i, tr) ==
    IF i > Len(orders)
    THEN [buy_orders |-> orders, total_remainder |-> tr]
    ELSE LET price == orders[i].current_price
         IN  IF RLt(tr, FromInt(price))
             THEN [buy_orders |-> orders, total_remainder |-> tr]      \* break
             ELSE LET additional_qty == PyInt(RDiv(tr, FromInt(price)))
                      additional_amount == additional_qty * price
                  IN  IF additional_qty > 0
                      THEN RedistributeFrom(
                               [orders EXCEPT
                                  ![i].quantity = @ + additional_qty,
                                  ![i].actual_amount = @ + additional_amount],
                               i + 1,
                               RSub(tr, FromInt(additional_amount)))
                      ELSE RedistributeFrom(orders, i + 1, tr)

redistribute_remainder(orders, tr) == RedistributeFrom(orders, 1, tr)

\* BuyOrderOf rounding the quantity up instead of truncating it
BuyOrderRoundingUp(alloc, price) ==
    LET floor_qty     == PyInt(RDiv(alloc.allocated_amount, FromInt(price)))
        quantity      == IF RSub(alloc.allocated_amount, FromInt(floor_qty * price)) = RZero
                         THEN floor_qty ELSE floor_qty + 1
        actual_amount == quantity * price
    IN  [code             |-> alloc.code,
         category         |-> alloc.category,
         allocated_amount |-> alloc.allocated_amount,
         current_price    |-> price,
         quantity         |-> quantity,
         actual_amount    |-> actual_amount,
         remainder        |-> RSub(alloc.allocated_amount, FromInt(actual_amount)),
         priority         |-> alloc.priority]

\* one pass of the loop of calculate_buy_quantities over a priced line
BuyOrderOf(alloc, price) ==
    LET quantity      == PyInt(RDiv(alloc.allocated_amount, FromInt(price)))
        actual_amount == quantity * price
    IN  [code             |-> alloc.code,
         category         |-> alloc.category,
         allocated_amount |-> alloc.allocated_amount,
         current_price    |-> price,
         quantity         |-> quantity,
         actual_amount    |-> actual_amount,
         remainder        |-> RSub(alloc.allocated_amount, FromInt(actual_amount)),
         priority         |-> alloc.priority]

\* calculate_buy_quantities looking every code up without the membership
\* test: a line without a price entry ends the call with KeyError
calculate_buy_quantities_strict(allocs, prices) ==
    IF \E i \in 1..Len(allocs) : allocs[i].code \notin DOMAIN prices
    THEN Raise("KeyError")
    ELSE IF \E i \in 1..Len(allocs) : prices[allocs[i].code] = 0
    THEN Raise("ZeroDivisionError")
    ELSE LET orders == sorted_by_priority(
                           Map(allocs, LAMBDA a : BuyOrderOf(a, prices[a.code])))
             tr == RSum(Map(orders, LAMBDA o : o.remainder))
         IN  IF RLt(RZero, tr)
             THEN Ok(redistribute_remainder(orders, tr))
             ELSE Ok([buy_orders |-> orders, total_remainder |-> tr])

\* Returns the orders together with the total remainder the call ends with
\* (the local total_remainder, which the source only prints).
calculate_buy_quantities(allocs, prices) ==
    LET priced == SelectSeq(allocs, LAMBDA a : a.code \in DOMAIN prices)
    IN  IF \E i \in 1..Len(priced) : prices[priced[i].code] = 0
        THEN Raise("ZeroDivisionError")           \* allocated / price
        ELSE LET orders == sorted_by_priority(
                               Map(priced, LAMBDA a : BuyOrderOf(a, prices[a.code])))
                 tr == RSum(Map(orders, LAMBDA o : o.remainder))
             IN  IF RLt(RZero, tr)
                 THEN Ok(redistribute_remainder(orders, tr))
                 ELSE Ok([buy_orders |-> orders, total_remainder |-> tr])

(***************************************************************************)
(* Configurations and broker answers the model draws from.                 *)
(***************************************************************************)
MaxWeight == 2                 \* weights of the configured instruments: 1..MaxWeight

Priorities == {1, 2}
Totals     == {120000, 300000}             \* monthly_regular_amount
DipAmounts == {120000}                     \* dip_buy_amount
\* int(stck_prpr): whatever integer the broker reports
Prices     == {-40000, 0, 30000, 40000, 150000}
Thresholds == {-5}                         \* dip_threshold, percent

EtfA(w, p) == [code |-> "A", category |-> "X", weight |-> w, priority |-> p,
               custom_ratio |-> 50]
EtfB(w, p) == [code |-> "B", category |-> "Y", weight |-> w, priority |-> p,
               custom_ratio |-> 35]
\* the third instrument leaves weight, priority and custom_ratio to their defaults
EtfC(on)   == [code |-> "C", category |-> "X", enabled |-> on]

EtfLists ==
    {<<EtfA(wa, pa), EtfB(wb, pb), EtfC(on)>> :
        wa \in 1..MaxWeight, wb \in 1..MaxWeight,
        pa \in Priorities, pb \in Priorities, on \in BOOLEAN}

\* custom_ratio of A and of B, percent: sums of 85, 100, 115 and 0
CustomRatioPairs == {<<50, 35>>, <<60, 40>>, <<60, 55>>, <<0, 0>>}

CustomEtfLists ==
    {<<[EtfA(1, 1) EXCEPT !.custom_ratio = ab[1]],
       [EtfB(1, 2) EXCEPT !.custom_ratio = ab[2]],
       EtfC(on)>> : ab \in CustomRatioPairs, on \in BOOLEAN}

\* configurations without a single enabled instrument
DisabledEtfLists == {<<>>, <<[enabled |-> FALSE] @@ EtfA(1, 1), EtfC(FALSE)>>}

\* max_allocation 0 is a cap of nothing at all
CategoryLimitChoices ==
    {<<>>,
     "X" :> [max_allocation |-> 40],
     "X" :> [max_allocation |-> 0],
     ("X" :> [max_allocation |-> 50]) @@ ("Y" :> [max_allocation |-> 50])}

\* the method names a configuration can carry for each mode; BOGUS is a
\* name the allocator does not know
ModeMethods ==
    {<<"REGULAR", "EQUAL">>, <<"REGULAR", "WEIGHTED">>, <<"REGULAR", "CUSTOM">>,
     <<"REGULAR", "BOGUS">>,
     <<"DIP", "FOCUS">>, <<"DIP", "EQUAL">>, <<"DIP", "WEIGHTED">>,
     <<"DIP", "BOGUS">>}

Config(etf_list, am, dm, limits, monthly, dip, threshold, auto) ==
    [STRATEGY |-> [allocation_method      |-> am,
                   dip_allocation_method  |-> dm,
                   monthly_regular_amount |-> monthly,
                   dip_buy_amount         |-> dip,
                   dip_threshold          |-> threshold],
     ETF_LIST |-> etf_list,
     CATEGORY_LIMITS |-> limits,
     ADVANCED |-> [auto_trade |-> auto]]

Codes(etfs) == {etfs[i].code : i \in 1..Len(etfs)}

\* a price map: a price for some of the codes
PriceMaps(codes) == UNION {[S -> Prices] : S \in SUBSET codes}

EmptyMap == [c \in {} |-> 0]

\* the amount a run of mode m allocates
RequiredAmount(config, m) ==
    IF m = "REGULAR" THEN config.STRATEGY.monthly_regular_amount
                     ELSE config.STRATEGY.dip_buy_amount

\* what is common to the initial states: nothing has run yet
Fresh ==
    /\ active_etfs = EnabledEtfs(cfg.ETF_LIST)
    /\ entry_etfs = active_etfs
    /\ balance = <<>>
    /\ opportunities = <<>>
    /\ current_prices = EmptyMap
    /\ allocations = <<>>
    /\ buy_orders = <<>>
    /\ total_remainder = RZero
    /\ idx = 0
    /\ counts = [success |-> 0, fail |-> 0]
    /\ submitted = <<>>
    /\ sent = <<>>
    /\ recorded = <<>>
    /\ outcome = "None"
    /\ price_data = EmptyMap

(***************************************************************************)
(* AllocSpec: the allocator alone.  calculate_allocation and               *)
(* calculate_buy_quantities applied to every configuration and price map   *)
(* of the sets above.                                                      *)
(***************************************************************************)
\* CATEGORY_LIMITS is read by the WEIGHTED method alone and
\* monthly_regular_amount by the REGULAR mode alone: the other runs see one
\* or two values of them
LimitsFor(mm) ==
    IF mm[2] = "WEIGHTED" THEN CategoryLimitChoices
    ELSE {<<>>, "X" :> [max_allocation |-> 40]}

MonthlyFor(mm) ==
    IF mm[1] = "REGULAR" THEN Totals
    ELSE {CHOOSE t \in Totals : \A u \in Totals : t >= u}

AllocInit ==
    /\ \E etf_list \in EtfLists \cup CustomEtfLists \cup DisabledEtfLists,
          mm \in ModeMethods, dip \in DipAmounts, threshold \in Thresholds :
       \E limits \in LimitsFor(mm), monthly \in MonthlyFor(mm) :
          /\ mode = mm[1]
          /\ cfg = Config(etf_list,
                          IF mm[1] = "REGULAR" THEN mm[2] ELSE "EQUAL",
                          IF mm[1] = "DIP" THEN mm[2] ELSE "FOCUS",
                          limits, monthly, dip, threshold, FALSE)
    /\ high_52w_cache = EmptyMap
    /\ pc = "construct"
    /\ Fresh

\* Construct without the test for an empty active_etfs
ConstructUnchecked ==
    /\ pc = "construct"
    /\ pc' = "allocate"
    /\ UNCHANGED <<price_data,
                   cfg, active_etfs, high_52w_cache, mode, entry_etfs, balance,
                   opportunities, current_prices, allocations, buy_orders,
                   total_remainder, idx, counts, submitted, sent, recorded,
                   outcome>>

\* PortfolioAllocator.__init__: active_etfs has been filtered from ETF_LIST;
\* an empty list ends the construction with ValueError
Construct ==
    /\ pc = "construct"
    /\ IF active_etfs = <<>>
       THEN pc' = "raised" /\ outcome' = "ValueError"
       ELSE pc' = "allocate" /\ outcome' = outcome
    /\ UNCHANGED <<price_data,
                   cfg, active_etfs, high_52w_cache, mode, entry_etfs, balance,
                   opportunities, current_prices, allocations, buy_orders,
                   total_remainder, idx, counts, submitted, sent, recorded>>

Allocate ==
    /\ pc = "allocate"
    /\ LET r == calculate_allocation(active_etfs, cfg,
                                     RequiredAmount(cfg, mode), mode)
       IN  IF r.ok
           THEN /\ allocations' = r.val
                /\ pc' = "resolve"
                /\ outcome' = outcome
           ELSE /\ allocations' = allocations
                /\ pc' = "raised"
                /\ outcome' = r.err
    /\ UNCHANGED <<price_data,
                   cfg, active_etfs, high_52w_cache, mode, entry_etfs, balance,
                   opportunities, current_prices, buy_orders, total_remainder,
                   idx, counts, submitted, sent, recorded>>

Resolve ==
    /\ pc = "resolve"
    /\ \E prices \in PriceMaps(Codes(active_etfs)) :
          /\ current_prices' = prices
          /\ LET r == calculate_buy_quantities(allocations, prices)
             IN  IF r.ok
                 THEN /\ buy_orders' = r.val.buy_orders
                      /\ total_remainder' = r.val.total_remainder
                      /\ pc' = "resolved"
                      /\ outcome' = outcome
                 ELSE /\ buy_orders' = buy_orders
                      /\ total_remainder' = total_remainder
                      /\ pc' = "raised"
                      /\ outcome' = r.err
    /\ UNCHANGED <<price_data,
                   cfg, active_etfs, high_52w_cache, mode, entry_etfs, balance,
                   opportunities, allocations, idx, counts, submitted, sent,
                   recorded>>

AllocNext == Construct \/ Allocate \/ Resolve

AllocSpec == AllocInit /\ [][AllocNext]_vars

(***************************************************************************)
(* Properties of the allocator (checked under AllocSpec).                  *)
(***************************************************************************)
Resolved == pc = "resolved"

\* the price map is one the contract of resolve admits: every price is positive
PositivePrices == \A c \in DOMAIN current_prices : current_prices[c] > 0
ResolvedInContract == Resolved /\ PositivePrices

\* the allocation lines that have a price entry, in the order of allocations
PricedLines == SelectSeq(allocations, LAMBDA a : a.code \in DOMAIN current_prices)

ActualTotal(orders) == ISum(Map(orders, LAMBDA o : o.actual_amount))
AllocatedTotal(lines) == RSum(Map(lines, LAMBDA a : a.allocated_amount))

\* quantity before redistribution: floor(allocated / price)
BaseQuantity(o) == PyInt(RDiv(o.allocated_amount, FromInt(o.current_price)))
ExtraUnits(o) == o.quantity - BaseQuantity(o)

\* C1: for every plan resolve returns, the sum of actualAmount over the
\* returned orders plus the total remainder left after redistribution equals
\* the sum of allocatedAmount over the priced lines.
C1_Conservation ==
    Resolved =>
        RAdd(FromInt(ActualTotal(buy_orders)), total_remainder)
            = AllocatedTotal(PricedLines)

\* a plan where redistribution granted units, money is still left over and a
\* line without a price was skipped
C1_Witness ==
    /\ Resolved
    /\ \E i \in 1..Len(buy_orders) : ExtraUnits(buy_orders[i]) > 0
    /\ RLt(RZero, total_remainder)
    /\ Len(PricedLines) < Len(allocations)

\* C2: under WEIGHTED allocation of T followed by resolve, every category
\* with a configured max_allocation gets at most max_allocation x T in
\* actualAmount.
CategoryActual(orders, cat) ==
    ActualTotal(SelectSeq(orders, LAMBDA o : o.category = cat))

C2_CategoryCapRespected ==
    (/\ Resolved
     /\ mode = "REGULAR"
     /\ cfg.STRATEGY.allocation_method = "WEIGHTED")
    => \A cat \in DOMAIN cfg.CATEGORY_LIMITS :
          CategoryActual(buy_orders, cat) * 100
              <= cfg.CATEGORY_LIMITS[cat].max_allocation
                   * cfg.STRATEGY.monthly_regular_amount

\* C3: the end-to-end scenario of the specification: A(priority 1, weight 2),
\* B(priority 2, weight 1), T = 300000, WEIGHTED, no category limits, prices
\* A 150000 and B 40000.
Scenario ==
    /\ Resolved
    /\ mode = "REGULAR"
    /\ cfg.ETF_LIST = <<EtfA(2, 1), EtfB(1, 2), EtfC(FALSE)>>
    /\ cfg.STRATEGY.allocation_method = "WEIGHTED"
    /\ cfg.STRATEGY.monthly_regular_amount = 300000
    /\ cfg.CATEGORY_LIMITS = <<>>
    /\ current_prices = ("A" :> 150000) @@ ("B" :> 40000)

ScenarioResult(qa, qb, unspent) ==
    /\ Len(buy_orders) = 2
    /\ buy_orders[1].code = "A"
    /\ buy_orders[1].quantity = qa
    /\ buy_orders[1].actual_amount = qa * 150000
    /\ buy_orders[2].code = "B"
    /\ buy_orders[2].quantity = qb
    /\ buy_orders[2].actual_amount = qb * 40000
    /\ total_remainder = FromInt(unspent)

\* as the specification states it: B ends with 3 units and 30000 stay unspent
C3_ScenarioAsStated == Scenario => ScenarioResult(1, 3, 30000)

\* C3 (amended): the pass stops at A, whose price exceeds the 70000 left, so
\* B keeps its 2 units and 70000 stay unspent.
C3_Scenario == Scenario => ScenarioResult(1, 2, 70000)

C3_Witness == Scenario /\ allocations[1].allocated_amount = FromInt(200000)

\* C4: every order resolve returns for a map of positive prices has
\* remainder = allocatedAmount - actualAmount with 0 <= remainder < currentPrice.
C4_RemainderField ==
    ResolvedInContract =>
        \A i \in 1..Len(buy_orders) :
            LET o == buy_orders[i]
            IN  /\ o.remainder = RSub(o.allocated_amount, FromInt(o.actual_amount))
                /\ RLe(RZero, o.remainder)
                /\ RLt(o.remainder, FromInt(o.current_price))

\* C4 (amended): for a map of positive prices, remainder is what the order's
\* own allocation left before redistribution: remainder = allocatedAmount -
\* floor(allocatedAmount / price) x price, with 0 <= remainder < currentPrice; it equals
\* allocatedAmount - actualAmount exactly for the orders that got no extra unit.
C4_RemainderBeforeRedistribution ==
    ResolvedInContract =>
        \A i \in 1..Len(buy_orders) :
            LET o == buy_orders[i]
            IN  /\ o.remainder
                     = RSub(o.allocated_amount,
                            FromInt(BaseQuantity(o) * o.current_price))
                /\ RLe(RZero, o.remainder)
                /\ RLt(o.remainder, FromInt(o.current_price))
                /\ (ExtraUnits(o) = 0) <=>
                     (o.remainder = RSub(o.allocated_amount, FromInt(o.actual_amount)))

\* an order that redistribution raised above its own allocation
C4_Witness ==
    /\ Resolved
    /\ \E i \in 1..Len(buy_orders) :
          /\ ExtraUnits(buy_orders[i]) > 0
          /\ RLt(buy_orders[i].allocated_amount,
                 FromInt(buy_orders[i].actual_amount))

\* C5: for a map of positive prices, redistribution is one forward pass in
\* ascending-priority order; each
\* visited order gets floor(totalRemainder / price) extra units and the pass
\* ends at the first order whose price exceeds the totalRemainder of that
\* moment: no later order gets extra units, cheaper or not.
\* total remainder before redistribution
RemainderAtStart(orders) ==
    RSub(AllocatedTotal(orders),
         FromInt(ISum(Map(orders, LAMBDA o : BaseQuantity(o) * o.current_price))))

\* total remainder when the pass reaches order i, given the units granted
RemainderAt(orders, i) ==
    RSub(RemainderAtStart(orders),
         FromInt(ISum(Map(SubSeq(orders, 1, i - 1),
                          LAMBDA o : ExtraUnits(o) * o.current_price))))

\* the first order the remainder cannot pay one unit of (Len + 1: none)
StopIndex(orders) ==
    LET stops == {i \in 1..Len(orders) :
                     RLt(RemainderAt(orders, i), FromInt(orders[i].current_price))}
    IN  IF stops = {} THEN Len(orders) + 1
        ELSE CHOOSE i \in stops : \A j \in stops : i <= j

C5_SingleForwardPass ==
    ResolvedInContract =>
        /\ \A i \in 1..(Len(buy_orders) - 1) :
              buy_orders[i].priority <= buy_orders[i + 1].priority
        /\ \A i \in 1..Len(buy_orders) :
              IF i < StopIndex(buy_orders)
              THEN ExtraUnits(buy_orders[i])
                     = PyInt(RDiv(RemainderAt(buy_orders, i),
                                  FromInt(buy_orders[i].current_price)))
              ELSE ExtraUnits(buy_orders[i]) = 0

\* an order got extra units, the pass ended at the next one, and a later,
\* cheaper order that the remainder could pay got nothing
C5_Witness ==
    /\ Resolved
    /\ \E i, j, k \in 1..Len(buy_orders) :
          /\ i < j /\ j < k
          /\ ExtraUnits(buy_orders[i]) > 0
          /\ StopIndex(buy_orders) = j
          /\ RLe(FromInt(buy_orders[k].current_price), total_remainder)
          /\ ExtraUnits(buy_orders[k]) = 0

(***************************************************************************)
(* TradingStrategy and the scheduled jobs of ETFAutoInvestor.              *)
(* A scheduled job runs to its end before the next one starts              *)
(* (schedule.run_pending is a plain loop).  pc follows the decision run:   *)
(*   idle -> [detect ->] balance_check -> [price_fetch ->] plan -> route   *)
(*        -> [execute ->] idle                                             *)
(* submitted, sent and recorded hold what the current run has done so far. *)
(***************************************************************************)
Balances  == {0, 200000, 500000}     \* ord_psbl_cash; get_balance gives 0 on any error
RunPrices == {-40000, 0, 40000, 150000}   \* int(stck_prpr)
Highs     == {0, 160000}             \* stck_sdpr, 0 when the field is missing
Quotes    == [current_price : RunPrices, high_52w : Highs]

\* the answers of get_domestic_etf_price to one sweep over the codes; a code
\* without an entry is a failed fetch (None)
QuoteMaps(codes) == UNION {[S -> Quotes] : S \in SUBSET codes}

Notice(kind, code) == [kind |-> kind, code |-> code]
CountKind(log, kind) == Len(SelectSeq(log, LAMBDA m : m.kind = kind))

\* _get_current_prices: the current price of every instrument whose fetch succeeded
get_current_prices(quotes) == [c \in DOMAIN quotes |-> quotes[c].current_price]

\* check_dip_opportunity with a strict comparison: a drop of exactly the
\* threshold is not an opportunity
check_dip_opportunity_strict(etfs, cache, quotes, threshold) ==
    LET fetched == SelectSeq(etfs, LAMBDA e : e.code \in DOMAIN quotes)
        high(e) == Get(cache, e.code, quotes[e.code].high_52w)
        current(e) == quotes[e.code].current_price
        drop_rate(e) == Rat((current(e) - high(e)) * 100, high(e))
        opp(e) == [code          |-> e.code,
                   current_price |-> current(e),
                   high_52w      |-> high(e),
                   drop_rate     |-> drop_rate(e),
                   category      |-> Get(e, "category", DefaultCategory)]
    IN  IF \E i \in 1..Len(fetched) : high(fetched[i]) = 0
        THEN Raise("ZeroDivisionError")
        ELSE Ok(Map(SelectSeq(fetched,
                              LAMBDA e : RLt(drop_rate(e), FromInt(threshold))),
                    opp))

\* check_dip_opportunity leaving the loop at the first failed fetch
check_dip_opportunity_aborting(etfs, cache, quotes, threshold) ==
    LET failed  == {i \in 1..Len(etfs) : etfs[i].code \notin DOMAIN quotes}
        fetched == IF failed = {} THEN etfs
                   ELSE SubSeq(etfs, 1,
                               (CHOOSE i \in failed : \A j \in failed : i <= j) - 1)
        high(e) == Get(cache, e.code, quotes[e.code].high_52w)
        current(e) == quotes[e.code].current_price
        drop_rate(e) == Rat((current(e) - high(e)) * 100, high(e))
        opp(e) == [code          |-> e.code,
                   current_price |-> current(e),
                   high_52w      |-> high(e),
                   drop_rate     |-> drop_rate(e),
                   category      |-> Get(e, "category", DefaultCategory)]
    IN  IF \E i \in 1..Len(fetched) : high(fetched[i]) = 0
        THEN Raise("ZeroDivisionError")
        ELSE Ok(Map(SelectSeq(fetched,
                              LAMBDA e : RLe(drop_rate(e), FromInt(threshold))),
                    opp))

\* check_dip_opportunity over the answers quotes
check_dip_opportunity(etfs, cache, quotes, threshold) ==
    LET fetched == SelectSeq(etfs, LAMBDA e : e.code \in DOMAIN quotes)
        high(e) == Get(cache, e.code, quotes[e.code].high_52w)
        current(e) == quotes[e.code].current_price
        drop_rate(e) == Rat((current(e) - high(e)) * 100, high(e))
        opp(e) == [code          |-> e.code,
                   current_price |-> current(e),
                   high_52w      |-> high(e),
                   drop_rate     |-> drop_rate(e),
                   category      |-> Get(e, "category", DefaultCategory)]
    IN  IF \E i \in 1..Len(fetched) : high(fetched[i]) = 0
        THEN Raise("ZeroDivisionError")          \* (current_price - high_52w) / high_52w
        ELSE Ok(Map(SelectSeq(fetched,
                              LAMBDA e : RLe(drop_rate(e), FromInt(threshold))),
                    opp))

RunVarsReset ==
    /\ balance' = <<>>
    /\ opportunities' = <<>>
    /\ current_prices' = EmptyMap
    /\ allocations' = <<>>
    /\ buy_orders' = <<>>
    /\ total_remainder' = RZero
    /\ idx' = 0
    /\ counts' = [success |-> 0, fail |-> 0]
    /\ submitted' = <<>>
    /\ sent' = <<>>
    /\ recorded' = <<>>
    /\ outcome' = "Running"

\* ETFAutoInvestor.check_regular_buy on a buy day: execute_regular_buy starts
check_regular_buy ==
    /\ pc = "idle"
    /\ mode' = "REGULAR"
    /\ pc' = "balance_check"
    /\ entry_etfs' = active_etfs
    /\ RunVarsReset
    /\ UNCHANGED <<price_data,
                   cfg, active_etfs, high_52w_cache>>

\* ETFAutoInvestor.check_dip_buy during market hours: check_dip_opportunity starts
check_dip_buy ==
    /\ pc = "idle"
    /\ mode' = "DIP"
    /\ pc' = "detect"
    /\ entry_etfs' = active_etfs
    /\ RunVarsReset
    /\ UNCHANGED <<price_data,
                   cfg, active_etfs, high_52w_cache>>

\* execute_regular_buy, step 1: the balance check
RegularBalanceCheck ==
    /\ pc = "balance_check" /\ mode = "REGULAR"
    /\ \E b \in Balances :
          /\ balance' = <<b>>
          /\ IF b < cfg.STRATEGY.monthly_regular_amount
             THEN /\ sent' = Append(sent, Notice("balance_warning", ""))
                  /\ outcome' = "InsufficientFunds"
                  /\ pc' = "idle"
             ELSE /\ sent' = sent
                  /\ outcome' = outcome
                  /\ pc' = "price_fetch"
    /\ UNCHANGED <<price_data,
                   cfg, active_etfs, high_52w_cache, mode, entry_etfs,
                   opportunities, current_prices, allocations, buy_orders,
                   total_remainder, idx, counts, submitted, recorded>>

\* execute_regular_buy, step 2: _get_current_prices
RegularPriceFetch ==
    /\ pc = "price_fetch" /\ mode = "REGULAR"
    /\ \E quotes \in QuoteMaps(Codes(active_etfs)) :
          /\ current_prices' = get_current_prices(quotes)
          /\ IF DOMAIN quotes = {}
             THEN outcome' = "PriceFetchFailed" /\ pc' = "idle"
             ELSE outcome' = outcome /\ pc' = "plan"
    /\ UNCHANGED <<price_data,
                   cfg, active_etfs, high_52w_cache, mode, entry_etfs, balance,
                   opportunities, allocations, buy_orders, total_remainder,
                   idx, counts, submitted, sent, recorded>>

\* execute_regular_buy, steps 3 and 4: the plan.  An exception leaves through
\* the except clause of check_regular_buy, which sends send_system_error.
RegularPlan ==
    /\ pc = "plan" /\ mode = "REGULAR"
    /\ \E a \in {calculate_allocation(active_etfs, cfg,
                                      cfg.STRATEGY.monthly_regular_amount, "REGULAR")} :
       \E q \in {IF a.ok THEN calculate_buy_quantities(a.val, current_prices) ELSE a} :
           IF q.ok
           THEN /\ allocations' = a.val
                /\ buy_orders' = q.val.buy_orders
                /\ total_remainder' = q.val.total_remainder
                /\ sent' = sent
                /\ outcome' = outcome
                /\ pc' = "route"
           ELSE /\ allocations' = IF a.ok THEN a.val ELSE allocations
                /\ buy_orders' = buy_orders
                /\ total_remainder' = total_remainder
                /\ sent' = Append(sent, Notice("system_error", ""))
                /\ outcome' = "Error"
                /\ pc' = "idle"
    /\ UNCHANGED <<price_data,
                   cfg, active_etfs, high_52w_cache, mode, entry_etfs, balance,
                   opportunities, current_prices, idx, counts, submitted,
                   recorded>>

\* execute_regular_buy, step 5: _execute_buy_orders or _send_buy_plan_alert
RegularRoute ==
    /\ pc = "route" /\ mode = "REGULAR"
    /\ IF cfg.ADVANCED.auto_trade
       THEN /\ pc' = "execute"
            /\ idx' = 1
            /\ sent' = sent
            /\ outcome' = outcome
       ELSE /\ pc' = "idle"
            /\ idx' = idx
            /\ sent' = Append(sent, Notice("buy_plan", ""))
            /\ outcome' = "Completed"
    /\ UNCHANGED <<price_data,
                   cfg, active_etfs, high_52w_cache, mode, entry_etfs, balance,
                   opportunities, current_prices, allocations, buy_orders,
                   total_remainder, counts, submitted, recorded>>

\* DipDetect asking for the balance before it looks at the detector's result
DipDetectFetchingBalance ==
    /\ pc = "detect" /\ mode = "DIP"
    /\ \E quotes \in QuoteMaps(Codes(active_etfs)), b \in Balances :
          LET r == check_dip_opportunity(active_etfs, high_52w_cache, quotes,
                                         cfg.STRATEGY.dip_threshold)
          IN  IF ~r.ok
              THEN /\ opportunities' = opportunities
                   /\ balance' = balance
                   /\ outcome' = "Error"
                   /\ pc' = "idle"
              ELSE /\ opportunities' = r.val
                   /\ IF r.val = <<>>
                      THEN /\ balance' = <<b>>
                           /\ outcome' = "NoOpportunities"
                           /\ pc' = "idle"
                      ELSE /\ balance' = balance
                           /\ outcome' = outcome
                           /\ pc' = "balance_check"
    /\ UNCHANGED <<price_data,
                   cfg, active_etfs, high_52w_cache, mode, entry_etfs,
                   current_prices, allocations, buy_orders, total_remainder,
                   idx, counts, submitted, sent, recorded>>

\* check_dip_buy: check_dip_opportunity and the test of its result.  An
\* exception leaves through the except clause of check_dip_buy, which only prints.
DipDetect ==
    /\ pc = "detect" /\ mode = "DIP"
    /\ \E quotes \in QuoteMaps(Codes(active_etfs)) :
          LET r == check_dip_opportunity(active_etfs, high_52w_cache, quotes,
                                         cfg.STRATEGY.dip_threshold)
          IN  IF ~r.ok
              THEN /\ opportunities' = opportunities
                   /\ outcome' = "Error"
                   /\ pc' = "idle"
              ELSE /\ opportunities' = r.val
                   /\ IF r.val = <<>>
                      THEN outcome' = "NoOpportunities" /\ pc' = "idle"
                      ELSE outcome' = outcome /\ pc' = "balance_check"
    /\ UNCHANGED <<price_data,
                   cfg, active_etfs, high_52w_cache, mode, entry_etfs, balance,
                   current_prices, allocations, buy_orders, total_remainder,
                   idx, counts, submitted, sent, recorded>>

\* DipBalanceCheck taking a balance of 0 for an unknown balance and going on
DipBalanceCheckTrustingZero ==
    /\ pc = "balance_check" /\ mode = "DIP"
    /\ \E b \in Balances :
          /\ balance' = <<b>>
          /\ IF b # 0 /\ b < cfg.STRATEGY.dip_buy_amount
             THEN outcome' = "InsufficientFunds" /\ pc' = "idle"
             ELSE outcome' = outcome /\ pc' = "plan"
    /\ UNCHANGED <<price_data,
                   cfg, active_etfs, high_52w_cache, mode, entry_etfs,
                   opportunities, current_prices, allocations, buy_orders,
                   total_remainder, idx, counts, submitted, sent, recorded>>

\* execute_dip_buy, step 1: the balance check
DipBalanceCheck ==
    /\ pc = "balance_check" /\ mode = "DIP"
    /\ \E b \in Balances :
          /\ balance' = <<b>>
          /\ IF b < cfg.STRATEGY.dip_buy_amount
             THEN outcome' = "InsufficientFunds" /\ pc' = "idle"
             ELSE outcome' = outcome /\ pc' = "plan"
    /\ UNCHANGED <<price_data,
                   cfg, active_etfs, high_52w_cache, mode, entry_etfs,
                   opportunities, current_prices, allocations, buy_orders,
                   total_remainder, idx, counts, submitted, sent, recorded>>

\* execute_dip_buy, steps 2 to 4: narrow active_etfs to the flagged codes,
\* plan, put the original list back.  An exception in between leaves through
\* the except clause of check_dip_buy before the list is put back.
DipPlan ==
    /\ pc = "plan" /\ mode = "DIP"
    /\ LET dip_amount    == cfg.STRATEGY.dip_buy_amount
           dip_codes     == {opportunities[i].code : i \in 1..Len(opportunities)}
           original_etfs == active_etfs
           narrowed      == SelectSeq(original_etfs, LAMBDA e : e.code \in dip_codes)
           prices        == [c \in dip_codes |->
                                opportunities[CHOOSE i \in 1..Len(opportunities) :
                                    opportunities[i].code = c].current_price]
       IN  \E a \in {calculate_allocation(narrowed, cfg, dip_amount, "DIP")} :
           \E q \in {IF a.ok THEN calculate_buy_quantities(a.val, prices) ELSE a} :
           IF q.ok
           THEN /\ allocations' = a.val
                /\ current_prices' = prices
                /\ buy_orders' = q.val.buy_orders
                /\ total_remainder' = q.val.total_remainder
                /\ active_etfs' = original_etfs
                /\ outcome' = outcome
                /\ pc' = "route"
           ELSE /\ allocations' = IF a.ok THEN a.val ELSE allocations
                /\ current_prices' = IF a.ok THEN prices ELSE current_prices
                /\ buy_orders' = buy_orders
                /\ total_remainder' = total_remainder
                /\ active_etfs' = narrowed
                /\ outcome' = "Error"
                /\ pc' = "idle"
    /\ UNCHANGED <<price_data,
                   cfg, high_52w_cache, mode, entry_etfs, balance,
                   opportunities, idx, counts, submitted, sent, recorded>>

\* DipRoute announcing only the first opportunity
DipRouteFirstAlertOnly ==
    /\ pc = "route" /\ mode = "DIP"
    /\ IF cfg.ADVANCED.auto_trade
       THEN /\ pc' = "execute"
            /\ idx' = 1
            /\ sent' = sent
            /\ outcome' = outcome
       ELSE /\ pc' = "idle"
            /\ idx' = idx
            /\ sent' = sent \o <<Notice("buy_plan", "")>>
                            \o <<Notice("dip_alert", opportunities[1].code)>>
            /\ outcome' = "Completed"
    /\ UNCHANGED <<price_data,
                   cfg, active_etfs, high_52w_cache, mode, entry_etfs, balance,
                   opportunities, current_prices, allocations, buy_orders,
                   total_remainder, counts, submitted, recorded>>

\* execute_dip_buy, step 5: _execute_buy_orders, or _send_buy_plan_alert
\* followed by send_dip_alert for every opportunity
DipRoute ==
    /\ pc = "route" /\ mode = "DIP"
    /\ IF cfg.ADVANCED.auto_trade
       THEN /\ pc' = "execute"
            /\ idx' = 1
            /\ sent' = sent
            /\ outcome' = outcome
       ELSE /\ pc' = "idle"
            /\ idx' = idx
            /\ sent' = sent \o <<Notice("buy_plan", "")>>
                            \o Map(opportunities,
                                   LAMBDA o : Notice("dip_alert", o.code))
            /\ outcome' = "Completed"
    /\ UNCHANGED <<price_data,
                   cfg, active_etfs, high_52w_cache, mode, entry_etfs, balance,
                   opportunities, current_prices, allocations, buy_orders,
                   total_remainder, counts, submitted, recorded>>

\* what api.buy_order can hand back: a success, a refusal, or None
OrderResults == {"success", "failure", "none"}

\* the type label _execute_buy_orders writes into the trade record; the
\* Korean labels are spelled in Latin letters: jeonggi-maesu is the
\* regular-buy label, gihoe-maesu the opportunity-buy label
category_text(order_type) ==
    IF order_type = "REGULAR" THEN "jeonggi-maesu" ELSE "gihoe-maesu"

\* ExecuteOrder leaving the loop at the first order that does not succeed
ExecuteOrderAbortOnFailure ==
    /\ pc = "execute"
    /\ idx <= Len(buy_orders)
    /\ LET order == buy_orders[idx]
       IN  IF order.quantity = 0
           THEN /\ idx' = idx + 1
                /\ UNCHANGED <<counts, submitted, sent, recorded>>
           ELSE \E result \in OrderResults :
                   /\ submitted' = Append(submitted,
                                     [code |-> order.code, quantity |-> order.quantity])
                   /\ IF result = "success"
                      THEN /\ idx' = idx + 1
                           /\ counts' = [counts EXCEPT !.success = @ + 1]
                           /\ recorded' = Append(recorded,
                                 [type     |-> category_text(mode),
                                  code     |-> order.code,
                                  price    |-> order.current_price,
                                  quantity |-> order.quantity,
                                  total    |-> order.actual_amount])
                           /\ sent' = Append(sent, Notice("trade_success", order.code))
                      ELSE /\ idx' = Len(buy_orders) + 1
                           /\ counts' = [counts EXCEPT !.fail = @ + 1]
                           /\ recorded' = recorded
                           /\ sent' = Append(sent, Notice("trade_failure", order.code))
    /\ UNCHANGED <<price_data,
                   cfg, active_etfs, high_52w_cache, pc, mode, entry_etfs,
                   balance, opportunities, current_prices, allocations,
                   buy_orders, total_remainder, outcome>>

\* ExecuteOrder passing over a submission that came back with no result
\* (None) without counting or reporting it
ExecuteOrderIgnoringNone ==
    /\ pc = "execute"
    /\ idx <= Len(buy_orders)
    /\ LET order == buy_orders[idx]
       IN  IF order.quantity = 0
           THEN /\ idx' = idx + 1
                /\ UNCHANGED <<counts, submitted, sent, recorded>>
           ELSE \E result \in OrderResults :
                   /\ idx' = idx + 1
                   /\ submitted' = Append(submitted,
                                     [code |-> order.code, quantity |-> order.quantity])
                   /\ CASE result = "success" ->
                             /\ counts' = [counts EXCEPT !.success = @ + 1]
                             /\ recorded' = Append(recorded,
                                   [type     |-> category_text(mode),
                                    code     |-> order.code,
                                    price    |-> order.current_price,
                                    quantity |-> order.quantity,
                                    total    |-> order.actual_amount])
                             /\ sent' = Append(sent, Notice("trade_success", order.code))
                        [] result = "failure" ->
                             /\ counts' = [counts EXCEPT !.fail = @ + 1]
                             /\ recorded' = recorded
                             /\ sent' = Append(sent, Notice("trade_failure", order.code))
                        [] OTHER -> UNCHANGED <<counts, sent, recorded>>
    /\ UNCHANGED <<price_data,
                   cfg, active_etfs, high_52w_cache, pc, mode, entry_etfs,
                   balance, opportunities, current_prices, allocations,
                   buy_orders, total_remainder, outcome>>

\* _execute_buy_orders: one pass of the loop over buy_orders
ExecuteOrder ==
    /\ pc = "execute"
    /\ idx <= Len(buy_orders)
    /\ LET order == buy_orders[idx]
       IN  IF order.quantity = 0
           THEN /\ idx' = idx + 1                                  \* continue
                /\ UNCHANGED <<counts, submitted, sent, recorded>>
           ELSE \E result \in OrderResults :
                   /\ idx' = idx + 1
                   /\ submitted' = Append(submitted,
                                     [code |-> order.code, quantity |-> order.quantity])
                   /\ IF result = "success"
                      THEN /\ counts' = [counts EXCEPT !.success = @ + 1]
                           /\ recorded' = Append(recorded,
                                 [type     |-> category_text(mode),
                                  code     |-> order.code,
                                  price    |-> order.current_price,
                                  quantity |-> order.quantity,
                                  total    |-> order.actual_amount])
                           /\ sent' = Append(sent, Notice("trade_success", order.code))
                      ELSE /\ counts' = [counts EXCEPT !.fail = @ + 1]
                           /\ recorded' = recorded
                           /\ sent' = Append(sent, Notice("trade_failure", order.code))
    /\ UNCHANGED <<price_data,
                   cfg, active_etfs, high_52w_cache, pc, mode, entry_etfs,
                   balance, opportunities, current_prices, allocations,
                   buy_orders, total_remainder, outcome>>

\* _execute_buy_orders: the loop is over, the run returns success_count > 0
ExecuteDone ==
    /\ pc = "execute"
    /\ idx > Len(buy_orders)
    /\ outcome' = "Completed"
    /\ pc' = "idle"
    /\ UNCHANGED <<price_data,
                   cfg, active_etfs, high_52w_cache, mode, entry_etfs, balance,
                   opportunities, current_prices, allocations, buy_orders,
                   total_remainder, idx, counts, submitted, sent, recorded>>

\* the configurations the decision runs are followed under
RunEtfLists == {<<EtfA(MaxWeight, 1), EtfB(1, 2), EtfC(on)>> : on \in BOOLEAN}

RunConfigs ==
    {Config(etf_list, mm[1], mm[2], mm[3], 300000, dip, threshold, auto) :
        etf_list \in RunEtfLists,
        mm \in {<<"WEIGHTED", "WEIGHTED", "X" :> [max_allocation |-> 40]>>,
                <<"EQUAL", "FOCUS", <<>>>>},
        dip \in DipAmounts, threshold \in Thresholds, auto \in BOOLEAN}

\* _update_52w_high at start-up stores the high of every instrument whose
\* fetch succeeded
InitialCaches(codes) == UNION {[S -> Highs \ {0}] : S \in SUBSET codes}

Init ==
    /\ cfg \in RunConfigs
    /\ high_52w_cache \in InitialCaches(Codes(EnabledEtfs(cfg.ETF_LIST)))
    /\ mode = "NONE"
    /\ pc = "idle"
    /\ Fresh

RunStep ==
    \/ RegularBalanceCheck
    \/ RegularPriceFetch
    \/ RegularPlan
    \/ RegularRoute
    \/ DipDetect
    \/ DipBalanceCheck
    \/ DipPlan
    \/ DipRoute
    \/ ExecuteOrder
    \/ ExecuteDone

Next == check_regular_buy \/ check_dip_buy \/ RunStep

Spec == Init /\ [][Next]_vars

Positions == {"idle", "detect", "balance_check", "price_fetch", "plan", "route", "execute"}

\* The statement a running job is at gets executed: the job moves on to
\* another position or the order loop to its next order.  A RunStep is
\* possible at every position but idle and each RunStep changes pc or idx, so
\* the steps of JobAdvances that change <<pc, idx>> are the steps
\* WF_vars(RunStep) asks for, written without the plan's arithmetic.
JobAdvances ==
    /\ pc # "idle"
    /\ \E p \in Positions, i \in 0..(Len(buy_orders) + 1) :
          /\ pc' = p
          /\ idx' = i

\* a job that has started runs on: the code is synchronous and every call it
\* makes returns (the HTTP layer ends each request)
LiveSpec == Spec /\ WF_<<pc, idx>>(JobAdvances)

(***************************************************************************)
(* Properties of the decision runs                                         *)
(***************************************************************************)
\* a job has run and has returned
Finished == pc = "idle" /\ mode # "NONE"

\* C6: after every dip-buy decision run (execute_dip_buy was called), however
\* it ended, the allocator's active universe is the one it had before the run.
C6_UniverseRestored ==
    (Finished /\ mode = "DIP" /\ opportunities # <<>>) => active_etfs = entry_etfs

\* C7: in a REGULAR and in a DIP run alike, a fetched balance below the
\* required amount ends the run in InsufficientFunds, with one shortage
\* notification sent and no order submitted.
C7_ShortageNotified ==
    (balance # <<>> /\ balance[1] < RequiredAmount(cfg, mode)) =>
        /\ Finished
        /\ outcome = "InsufficientFunds"
        /\ CountKind(sent, "balance_warning") = 1
        /\ submitted = <<>>

Submission(order) == [code |-> order.code, quantity |-> order.quantity]
NonZero(orders) == SelectSeq(orders, LAMBDA o : o.quantity # 0)
Executing == pc = "execute" \/ (Finished /\ outcome = "Completed" /\ cfg.ADVANCED.auto_trade)

\* C8: with auto_trade on, the orders handed to the executor so far are
\* exactly the non-zero-quantity orders among those the loop has passed, each
\* once and in plan order (ascending priority), whatever the earlier
\* submissions returned; the loop passes every order of the plan before the
\* run ends, and an order of quantity 0 is never submitted.
C8_EveryOrderSubmittedOnce ==
    Executing =>
        /\ submitted = Map(NonZero(SubSeq(buy_orders, 1, idx - 1)), Submission)
        /\ Finished => idx = Len(buy_orders) + 1
        /\ \A i, j \in 1..Len(buy_orders) :
              i < j => /\ buy_orders[i].priority <= buy_orders[j].priority
                       /\ buy_orders[i].code # buy_orders[j].code
        /\ counts.success + counts.fail = Len(submitted)

\* a finished batch in which an order of quantity 0 was passed over and a
\* submission that did not succeed was followed by another submission
C8_Witness ==
    /\ Finished /\ outcome = "Completed" /\ cfg.ADVANCED.auto_trade
    /\ \E i \in 1..Len(buy_orders) : buy_orders[i].quantity = 0
    /\ \E k \in 1..Len(sent) : sent[k].kind = "trade_failure" /\ k < Len(sent)
    /\ Len(submitted) >= 2

DipAlerts(log) == SelectSeq(log, LAMBDA m : m.kind = "dip_alert")
Announced == Finished /\ outcome = "Completed" /\ ~cfg.ADVANCED.auto_trade

\* C9: with auto_trade off no run ever submits an order; a run that gets
\* through Route has sent exactly one plan notification (and none before),
\* and in DIP mode exactly one opportunity alert for each detected
\* opportunity, in REGULAR mode none.
C9_AnnounceOnly ==
    ~cfg.ADVANCED.auto_trade =>
        /\ submitted = <<>>
        /\ CountKind(sent, "buy_plan") = IF Announced THEN 1 ELSE 0
        /\ DipAlerts(sent) = IF Announced /\ mode = "DIP"
                             THEN Map(opportunities,
                                      LAMBDA o : Notice("dip_alert", o.code))
                             ELSE <<>>

\* an announce-only DIP run over two opportunities has ended
C9_Witness ==
    /\ Announced
    /\ mode = "DIP"
    /\ Len(opportunities) >= 2
    /\ buy_orders # <<>>

TerminalStates == {"Completed", "InsufficientFunds", "NoOpportunities"}

\* C10 as stated: a run that has ended is in Completed, InsufficientFunds or
\* NoOpportunities.
C10_ThreeTerminalStates == Finished => outcome \in TerminalStates

\* C10: every run that has started ends, in exactly one of Completed,
\* InsufficientFunds, NoOpportunities, PriceFetchFailed (a REGULAR run for
\* which no price at all could be fetched) and Error (an exception ended the
\* job); NoOpportunities only in DIP mode with an empty detector result, and
\* then with no balance fetched and no order submitted.
C10_RunEnds ==
    /\ [](Finished => outcome \in TerminalStates \cup {"PriceFetchFailed", "Error"})
    /\ [](pc # "idle" => outcome = "Running")
    /\ [](outcome = "PriceFetchFailed" =>
             mode = "REGULAR" /\ current_prices = EmptyMap /\ submitted = <<>>)
    /\ [](outcome = "NoOpportunities" =>
             /\ mode = "DIP"
             /\ opportunities = <<>>
             /\ balance = <<>>
             /\ submitted = <<>>)
    /\ (pc # "idle") ~> Finished

\* a DIP job whose detector found nothing has ended
C10_Witness ==
    /\ Finished
    /\ mode = "DIP"
    /\ outcome = "NoOpportunities"

BatchDone == Finished /\ outcome = "Completed" /\ cfg.ADVANCED.auto_trade
CountCode(log, code) == Len(SelectSeq(log, LAMBDA m : m.code = code))
FailureNotices(log) == SelectSeq(log, LAMBDA m : m.kind = "trade_failure")

\* C11: at the end of an Execute batch every submitted order has left either
\* exactly one trade record (a success) or exactly one failure notification
\* (a failure), never both; the records number the success count, the
\* failure notifications the failure count, and the two counts add up to the
\* number of non-zero-quantity orders of the plan.
C11_BatchAccounting ==
    BatchDone =>
        /\ Len(recorded) = counts.success
        /\ Len(FailureNotices(sent)) = counts.fail
        /\ counts.success + counts.fail = Len(NonZero(buy_orders))
        /\ \A i \in 1..Len(buy_orders) :
              CountCode(recorded, buy_orders[i].code)
                + CountCode(FailureNotices(sent), buy_orders[i].code)
              = IF buy_orders[i].quantity = 0 THEN 0 ELSE 1
        /\ \A k \in 1..Len(recorded) :
              \E i \in 1..Len(buy_orders) :
                 /\ recorded[k].code = buy_orders[i].code
                 /\ recorded[k].quantity = buy_orders[i].quantity
                 /\ recorded[k].total = buy_orders[i].actual_amount

\* a batch with a success and a failure has ended
C11_Witness ==
    /\ BatchDone
    /\ counts.success >= 1
    /\ counts.fail >= 1

\* C12: a scheduled job that an exception ended has sent exactly one
\* system-error notification (and the scheduler is free to start the next job).
C12_ErrorReported ==
    (Finished /\ outcome = "Error") =>
        /\ CountKind(sent, "system_error") = 1
        /\ ENABLED check_regular_buy
        /\ ENABLED check_dip_buy

(***************************************************************************)
(* Further properties of the allocator (checked under AllocSpec).          *)
(***************************************************************************)
\* the amount an order was worth before redistribution, read back from its
\* remainder field: allocated_amount - remainder
SpentBefore(o) == RSub(o.allocated_amount, o.remainder)

\* C13: for a map of positive prices, before redistribution every priced
\* line got the whole number of
\* units its allocation pays, never one more: the amount it was resolved to
\* is k x price for a whole k with k x price <= allocatedAmount < (k + 1) x
\* price, and redistribution only adds to k; an allocation of 100000 at
\* price 30000 resolves to 3 units with remainder 10000.
C13_Truncation ==
    ResolvedInContract =>
        \A i \in 1..Len(buy_orders) :
            LET o == buy_orders[i]
                price == o.current_price
            IN  /\ \E k \in 0..o.quantity :
                      /\ SpentBefore(o) = FromInt(k * price)
                      /\ RLe(FromInt(k * price), o.allocated_amount)
                      /\ RLt(o.allocated_amount, FromInt((k + 1) * price))
                /\ (o.allocated_amount = FromInt(100000) /\ price = 30000)
                      => /\ o.remainder = FromInt(10000)
                         /\ SpentBefore(o) = FromInt(3 * 30000)

\* the example of the specification: 100000 allocated at price 30000
C13_Witness ==
    /\ Resolved
    /\ \E i \in 1..Len(buy_orders) :
          /\ buy_orders[i].allocated_amount = FromInt(100000)
          /\ buy_orders[i].current_price = 30000
          /\ buy_orders[i].quantity = 3

\* the method name the configuration gives for the mode of the run
MethodOf(config, m) ==
    IF m = "REGULAR" THEN config.STRATEGY.allocation_method
                     ELSE config.STRATEGY.dip_allocation_method

Allocated == pc \in {"resolve", "resolved"}
WeightOf(etf) == Get(etf, "weight", DefaultWeight)
TotalWeight(etfs) == ISum(Map(etfs, WeightOf))
RatioTotal(lines) == RSum(Map(lines, LAMBDA a : a.ratio))
EtfOf(etfs, code) == etfs[CHOOSE i \in 1..Len(etfs) : etfs[i].code = code]

\* the WEIGHTED lines as they are before category scaling
Unscaled == weighted_allocation(active_etfs, <<>>, RequiredAmount(cfg, mode))

\* C14: under WEIGHTED allocation of T over a non-empty universe, before
\* category scaling there is one line per instrument with ratio = weight /
\* (sum of the weights), a missing weight counting 1, and allocatedAmount =
\* T x ratio; the amounts add up to T and the ratios to 1.  Without category
\* limits these are the lines allocate returns.
C14_WeightedSum ==
    (Allocated /\ MethodOf(cfg, mode) = "WEIGHTED") =>
        /\ Unscaled.ok
        /\ Len(Unscaled.val) = Len(active_etfs)
        /\ AllocatedTotal(Unscaled.val) = FromInt(RequiredAmount(cfg, mode))
        /\ RatioTotal(Unscaled.val) = FromInt(1)
        /\ \A i \in 1..Len(Unscaled.val) :
              LET a == Unscaled.val[i]
              IN  /\ RMul(a.ratio, FromInt(TotalWeight(active_etfs)))
                        = FromInt(WeightOf(EtfOf(active_etfs, a.code)))
                  /\ a.allocated_amount
                        = RMul(FromInt(RequiredAmount(cfg, mode)), a.ratio)
        /\ cfg.CATEGORY_LIMITS = <<>> => allocations = Unscaled.val

\* WEIGHTED over three instruments of unequal weight, one of them without a
\* weight of its own, with a category scaled afterwards
C14_Witness ==
    /\ Allocated
    /\ MethodOf(cfg, mode) = "WEIGHTED"
    /\ Len(active_etfs) = 3
    /\ WeightOf(active_etfs[1]) # WeightOf(active_etfs[2])
    /\ allocations # Unscaled.val

\* allocate has been called on a constructed allocator and has returned or raised
AllocateRaised == pc = "raised" /\ active_etfs # <<>> /\ allocations = <<>>
AllocateCalled == Allocated \/ AllocateRaised
CustomRun == AllocateCalled /\ mode = "REGULAR" /\ MethodOf(cfg, mode) = "CUSTOM"
CustomRatioOf(etf) == Get(etf, "custom_ratio", DefaultCustomRatio)
CustomTotal(etfs) == ISum(Map(etfs, CustomRatioOf))

\* C15 as stated: CUSTOM allocation returns, for every assignment of
\* custom_ratio values, lines whose ratios sum to 1 and whose amounts sum to
\* T, and never ends in an error.
C15_NormalizationAsStated ==
    CustomRun =>
        /\ Allocated
        /\ RatioTotal(allocations) = FromInt(1)
        /\ AllocatedTotal(allocations) = FromInt(RequiredAmount(cfg, mode))

\* C15 (amended): when the custom_ratio values of the enabled instruments
\* do not add up to 0, CUSTOM allocation returns one line per instrument
\* with ratio = custom_ratio / (their sum), the ratios summing to 1 and the
\* amounts to T, whether the values add up to 1 or not; when they add up to
\* 0 (all 0 or all missing) the call raises ZeroDivisionError and returns
\* nothing.
C15_Normalization ==
    CustomRun =>
        IF CustomTotal(active_etfs) # 0
        THEN /\ Allocated
             /\ Len(allocations) = Len(active_etfs)
             /\ RatioTotal(allocations) = FromInt(1)
             /\ AllocatedTotal(allocations) = FromInt(RequiredAmount(cfg, mode))
             /\ \A i \in 1..Len(allocations) :
                   RMul(allocations[i].ratio, FromInt(CustomTotal(active_etfs)))
                     = FromInt(CustomRatioOf(EtfOf(active_etfs, allocations[i].code)))
        ELSE AllocateRaised /\ outcome = "ZeroDivisionError"

\* CUSTOM over ratios that add up to 115 percent, one instrument without a
\* custom_ratio of its own
C15_Witness ==
    /\ CustomRun
    /\ Allocated
    /\ CustomTotal(active_etfs) = 115
    /\ Len(active_etfs) = 3

\* the runs that end in _equal_allocation: EQUAL in REGULAR mode, and in DIP
\* mode every method name but WEIGHTED
EqualRun ==
    /\ Allocated
    /\ \/ mode = "REGULAR" /\ MethodOf(cfg, mode) = "EQUAL"
       \/ mode = "DIP" /\ MethodOf(cfg, mode) # "WEIGHTED"

\* C16: EQUAL allocation of T over N enabled instruments returns exactly N
\* lines, one per instrument, each with allocatedAmount = T / N and ratio =
\* 1 / N; the ratios add up to 1 and the amounts to T.
C16_EqualShares ==
    EqualRun =>
        LET N == Len(active_etfs)
            T == RequiredAmount(cfg, mode)
        IN  /\ Len(allocations) = N
            /\ Codes(allocations) = Codes(active_etfs)
            /\ \A i \in 1..Len(allocations) :
                  /\ RMul(FromInt(N), allocations[i].allocated_amount) = FromInt(T)
                  /\ RMul(FromInt(N), allocations[i].ratio) = FromInt(1)
            /\ RatioTotal(allocations) = FromInt(1)
            /\ AllocatedTotal(allocations) = FromInt(T)

\* EQUAL in REGULAR mode over three instruments
C16_Witness ==
    /\ EqualRun
    /\ mode = "REGULAR"
    /\ Len(active_etfs) = 3
    /\ allocations[3].allocated_amount = FromInt(40000)

Categories(lines) == {lines[i].category : i \in 1..Len(lines)}
CapAmount(cat) ==
    Rat(cfg.CATEGORY_LIMITS[cat].max_allocation * RequiredAmount(cfg, mode), 100)

\* what C17 asks of one category
CategoryScaledWithinCap(cat) ==
    LET before == CategoryTotal(Unscaled.val, cat)
        after  == CategoryTotal(allocations, cat)
    IN  /\ RLe(after, before)
        /\ cat \in DOMAIN cfg.CATEGORY_LIMITS => RLe(after, CapAmount(cat))
        /\ after # before =>
              cat \in DOMAIN cfg.CATEGORY_LIMITS /\ RLt(CapAmount(cat), before)

\* C17: after WEIGHTED allocation with category limits (max_allocation
\* anywhere from 0 to 1), every category's total is at most the smaller of
\* its unscaled total and max_allocation x T, a category is scaled only if
\* its share exceeded its cap, and no line of any category has grown.
C17_ScalingWithinCap ==
    (Allocated /\ MethodOf(cfg, mode) = "WEIGHTED") =>
        /\ \A cat \in Categories(allocations) : CategoryScaledWithinCap(cat)
        /\ \A i \in 1..Len(allocations) :
              \E j \in 1..Len(Unscaled.val) :
                 /\ Unscaled.val[j].code = allocations[i].code
                 /\ RLe(allocations[i].allocated_amount,
                        Unscaled.val[j].allocated_amount)

PositionIn(etfs, code) == CHOOSE i \in 1..Len(etfs) : etfs[i].code = code
PriorityOf(etf) == Get(etf, "priority", DefaultPriority)

\* ascending priority, equal priorities in the order of the universe
StablySorted(lines) ==
    \A i, j \in 1..Len(lines) :
        i < j =>
           \/ lines[i].priority < lines[j].priority
           \/ /\ lines[i].priority = lines[j].priority
              /\ PositionIn(active_etfs, lines[i].code)
                   < PositionIn(active_etfs, lines[j].code)

CodesInOrder(lines) == Map(lines, LAMBDA a : a.code)

\* C18: the lines allocate returns and the orders resolve returns are in
\* ascending order of priority (999 for an instrument without one), lines of
\* equal priority in the order of the universe; the orders are the priced
\* lines in the order allocate gave them, redistribution or not.
C18_StableOrder ==
    /\ Allocated =>
          /\ StablySorted(allocations)
          /\ \A i \in 1..Len(allocations) :
                allocations[i].priority
                  = PriorityOf(EtfOf(active_etfs, allocations[i].code))
    /\ Resolved =>
          /\ StablySorted(buy_orders)
          /\ CodesInOrder(buy_orders) = CodesInOrder(PricedLines)

\* two orders of equal priority and one without a priority, after a
\* redistribution that granted units
C18_Witness ==
    /\ Resolved
    /\ Len(buy_orders) = 3
    /\ buy_orders[1].priority = buy_orders[2].priority
    /\ buy_orders[3].priority = DefaultPriority
    /\ \E i \in 1..Len(buy_orders) : ExtraUnits(buy_orders[i]) > 0

\* the method names each mode knows
RecognizedMethods(m) ==
    IF m = "REGULAR" THEN {"EQUAL", "WEIGHTED", "CUSTOM"}
                     ELSE {"FOCUS", "EQUAL", "WEIGHTED"}

\* C19: when the method name configured for the mode of the call is not a
\* recognized one, allocate fails with a configuration error (ValueError)
\* and returns no allocation lines.
C19_UnknownMethodFails ==
    (AllocateCalled /\ MethodOf(cfg, mode) \notin RecognizedMethods(mode)) =>
        /\ AllocateRaised
        /\ outcome = "ValueError"

\* C20: a configuration without a single enabled instrument is refused with
\* a configuration error (ValueError), whatever the mode and the method: no
\* allocation is computed and no order resolved, and allocate never runs
\* over an empty universe.
C20_EmptyUniverseRejected ==
    /\ (pc # "construct" /\ EnabledEtfs(cfg.ETF_LIST) = <<>>) =>
          /\ pc = "raised"
          /\ outcome = "ValueError"
          /\ allocations = <<>>
          /\ buy_orders = <<>>
    /\ (pc = "allocate" \/ AllocateCalled) => active_etfs # <<>>

\* a configuration that lists instruments, all of them disabled, was refused
C20_Witness ==
    /\ pc = "raised"
    /\ cfg.ETF_LIST # <<>>
    /\ active_etfs = <<>>
    /\ MethodOf(cfg, mode) = "WEIGHTED"

(***************************************************************************)
(* The price map of resolve (checked under AllocSpec).                     *)
(***************************************************************************)
\* calculate_buy_quantities has been called, and it has raised
ResolveCalled == pc \in {"resolved", "raised"} /\ allocations # <<>>
ResolveRaised == pc = "raised" /\ allocations # <<>>

\* the prices the map holds for the allocation lines
LinePrices == {current_prices[PricedLines[i].code] : i \in 1..Len(PricedLines)}

\* C21: whenever the price map holds a price of zero or below for the code of
\* an allocation line, resolve fails and returns no orders.
C21_NonPositivePriceFails ==
    (ResolveCalled /\ \E p \in LinePrices : p <= 0)
        => (pc = "raised" /\ buy_orders = <<>>)

CountOrders(orders, code) == Len(SelectSeq(orders, LAMBDA o : o.code = code))

\* C22: a line whose code the price map does not hold is left out and does
\* not fail the call: the orders returned are the lines with a price entry,
\* each once, and the call raises only when a priced line has price 0.
C22_AbsentCodeOmitted ==
    /\ Resolved =>
          /\ Len(buy_orders) = Len(PricedLines)
          /\ \A i \in 1..Len(allocations) :
                CountOrders(buy_orders, allocations[i].code)
                    = IF allocations[i].code \in DOMAIN current_prices THEN 1 ELSE 0
    /\ ResolveRaised => 0 \in LinePrices
    /\ (ResolveCalled /\ 0 \notin LinePrices) => Resolved

\* a line without a price was left out ahead of a line that was resolved
C22_Witness ==
    /\ Resolved
    /\ \E i, j \in 1..Len(allocations) :
          /\ i < j
          /\ allocations[i].code \notin DOMAIN current_prices
          /\ CountOrders(buy_orders, allocations[j].code) = 1
          /\ CountOrders(buy_orders, allocations[i].code) = 0

(***************************************************************************)
(* DetectSpec: the reference-high cache and the dip detector alone.        *)
(* TradingStrategy.__init__ empties the cache and fills it with            *)
(* _update_52w_high; after that _update_52w_high (a refresh on demand) and *)
(* check_dip_opportunity are applied to every sweep of answers of the sets *)
(* below.  outcome tells which of them ran last.                           *)
(***************************************************************************)
\* stck_prpr: 152000 is 5 % below 160000, 152016 is 4.99 % below it
DetectPrices == {0, 152000, 152016}
\* stck_sdpr, 0 when the field is missing
DetectHighs  == {0, 160000, 200000}
DetectQuotes == [current_price : DetectPrices, high_52w : DetectHighs]

\* the answers to one sweep; a code without an entry is a failed fetch (None)
DetectQuoteMaps(codes) == UNION {[S -> DetectQuotes] : S \in SUBSET codes}

\* two instruments are swept, the third is disabled
DetectEtfLists == {<<EtfA(1, 1), EtfB(1, 2), EtfC(FALSE)>>}

\* _update_52w_high: the loop assigns high_52w_cache[code] for every
\* instrument whose fetch succeeded and leaves the other entries as they are
update_52w_high(cache, etfs, quotes) ==
    LET written == Codes(etfs) \cap DOMAIN quotes
    IN  [c \in DOMAIN cache \cup written |->
            IF c \in written THEN quotes[c].high_52w ELSE cache[c]]

DetectInit ==
    /\ \E etf_list \in DetectEtfLists, threshold \in Thresholds, dip \in DipAmounts :
          cfg = Config(etf_list, "EQUAL", "FOCUS", <<>>,
                       CHOOSE t \in Totals : \A u \in Totals : t >= u,
                       dip, threshold, FALSE)
    /\ high_52w_cache = EmptyMap
    /\ mode = "NONE"
    /\ pc = "init"
    /\ Fresh

\* TradingStrategy.__init__: self.high_52w_cache = {} and the first
\* _update_52w_high
StrategyInit ==
    /\ pc = "init"
    /\ \E quotes \in DetectQuoteMaps(Codes(active_etfs)) :
          /\ price_data' = quotes
          /\ high_52w_cache' = update_52w_high(EmptyMap, active_etfs, quotes)
    /\ outcome' = "Refreshed"
    /\ pc' = "ready"
    /\ UNCHANGED <<cfg, active_etfs, mode, entry_etfs, balance, opportunities,
                   current_prices, allocations, buy_orders, total_remainder,
                   idx, counts, submitted, sent, recorded>>

\* _update_52w_high called again on the strategy that is running
Refresh ==
    /\ pc = "ready"
    /\ \E quotes \in DetectQuoteMaps(Codes(active_etfs)) :
          /\ price_data' = quotes
          /\ high_52w_cache' = update_52w_high(high_52w_cache, active_etfs, quotes)
    /\ outcome' = "Refreshed"
    /\ UNCHANGED <<cfg, active_etfs, pc, mode, entry_etfs, balance, opportunities,
                   current_prices, allocations, buy_orders, total_remainder,
                   idx, counts, submitted, sent, recorded>>

\* check_dip_opportunity
Detect ==
    /\ pc = "ready"
    /\ \E quotes \in DetectQuoteMaps(Codes(active_etfs)) :
          /\ price_data' = quotes
          /\ LET r == check_dip_opportunity(active_etfs, high_52w_cache, quotes,
                                            cfg.STRATEGY.dip_threshold)
             IN  IF r.ok
                 THEN opportunities' = r.val /\ outcome' = "Detected"
                 ELSE opportunities' = <<>> /\ outcome' = r.err
    /\ UNCHANGED <<cfg, active_etfs, high_52w_cache, pc, mode, entry_etfs,
                   balance, current_prices, allocations, buy_orders,
                   total_remainder, idx, counts, submitted, sent, recorded>>

DetectNext == StrategyInit \/ Refresh \/ Detect

DetectSpec == DetectInit /\ [][DetectNext]_vars

(***************************************************************************)
(* Properties of the detector and of the cache (checked under DetectSpec). *)
(***************************************************************************)
Detected  == pc = "ready" /\ outcome = "Detected"
Refreshed == pc = "ready" /\ outcome = "Refreshed"

\* the instruments the last sweep got an answer for, in universe order
Fetched == SelectSeq(active_etfs, LAMBDA e : e.code \in DOMAIN price_data)

\* the reference high the detector has to use for a fetched code
ReferenceHigh(code) ==
    IF code \in DOMAIN high_52w_cache THEN high_52w_cache[code]
    ELSE price_data[code].high_52w

Flagged(code) == \E i \in 1..Len(opportunities) : opportunities[i].code = code

\* (currentPrice - referenceHigh) / referenceHigh x 100 <= thresholdPercent,
\* for a positive reference high, in whole numbers
DropMeetsThreshold(code) ==
    (price_data[code].current_price - ReferenceHigh(code)) * 100
        <= cfg.STRATEGY.dip_threshold * ReferenceHigh(code)

C24_WholeScanCacheFirst ==
    /\ Detected =>
          /\ \A i, j \in 1..Len(opportunities) :
                i < j => PositionIn(active_etfs, opportunities[i].code)
                           < PositionIn(active_etfs, opportunities[j].code)
          /\ \A i \in 1..Len(opportunities) :
                LET o == opportunities[i]
                IN  /\ o.code \in DOMAIN price_data
                    /\ o.current_price = price_data[o.code].current_price
                    /\ o.high_52w = ReferenceHigh(o.code)
          /\ \A i \in 1..Len(Fetched) :
                DropMeetsThreshold(Fetched[i].code) => Flagged(Fetched[i].code)
    /\ (pc = "ready" /\ outcome = "ZeroDivisionError")
          => \E i \in 1..Len(Fetched) : ReferenceHigh(Fetched[i].code) = 0

\* the fetch of the first instrument failed and the second one, taken
\* against a cached high that differs from the fetched one, was flagged
C24_Witness ==
    /\ Detected
    /\ Len(active_etfs) >= 2
    /\ active_etfs[1].code \notin DOMAIN price_data
    /\ LET c == active_etfs[2].code
       IN  /\ Flagged(c)
           /\ c \in DOMAIN high_52w_cache
           /\ high_52w_cache[c] # price_data[c].high_52w

trades_summary(trades) ==
    [regular_count  |-> Len(SelectSeq(trades, LAMBDA t : t.type = "jeonggi")),
     dip_count      |-> Len(SelectSeq(trades, LAMBDA t : t.type = "gihoe")),
     total_invested |-> ISum(Map(trades, LAMBDA t : t.total))]

\* check_monthly_report: regular_buy and dip_buy over the trade rows of the month
monthly_amounts(trades) ==
    [regular_buy |-> ISum(Map(SelectSeq(trades, LAMBDA t : t.type = "jeonggi"),
                              LAMBDA t : t.total)),
     dip_buy     |-> ISum(Map(SelectSeq(trades, LAMBDA t : t.type = "gihoe"),
                              LAMBDA t : t.total))]

\* C26: every trade row written by order execution carries the label
\* add_trade documents, so the weekly counts and the monthly amounts of
\* regular and of dip buys are the numbers and totals of the rows the
\* regular and the dip runs recorded.
C26_LabelsCounted ==
    LET week  == trades_summary(recorded)
        month == monthly_amounts(recorded)
        rows  == Len(recorded)
        total == ISum(Map(recorded, LAMBDA t : t.total))
    IN  /\ \A i \in 1..Len(recorded) : recorded[i].type \in {"jeonggi", "gihoe"}
        /\ mode = "REGULAR" =>
              /\ week.regular_count = rows /\ week.dip_count = 0
              /\ month.regular_buy = total /\ month.dip_buy = 0
        /\ mode = "DIP" =>
              /\ week.dip_count = rows /\ week.regular_count = 0
              /\ month.dip_buy = total /\ month.regular_buy = 0

(***************************************************************************)
(* Further properties of the decision runs (checked under Spec).           *)
(***************************************************************************)
\* the run in progress, or the last one, got as far as a plan
Planned ==
    /\ mode # "NONE"
    /\ pc \in {"route", "execute"} \/ (pc = "idle" /\ outcome = "Completed")

\* C27: a run that reaches its plan never plans to spend more than its
\* budget: the actualAmount of its orders sums to at most the requested
\* amount, which is at most the balance seen at the balance check.
C27_WithinBudget ==
    Planned =>
        /\ Len(balance) = 1
        /\ ActualTotal(buy_orders) <= RequiredAmount(cfg, mode)
        /\ RequiredAmount(cfg, mode) <= balance[1]

\* a plan that redistribution brought up to the whole requested amount
C27_Witness ==
    /\ Planned
    /\ ActualTotal(buy_orders) = RequiredAmount(cfg, mode)
    /\ \E i \in 1..Len(buy_orders) : ExtraUnits(buy_orders[i]) > 0

(***************************************************************************)
(* The unspent total of a plan (checked under AllocSpec).                  *)
(***************************************************************************)
\* what the resolved lines were allocated and the orders do not spend
Unspent == RSub(AllocatedTotal(PricedLines), FromInt(ActualTotal(buy_orders)))

\* C28: after resolve with positive prices the unspent total is not negative
\* and is strictly less than the price of the highest-priority order
\* returned, the first of the returned list.
C28_UnspentBelowTopPrice ==
    (ResolvedInContract /\ buy_orders # <<>>) =>
        /\ RLe(RZero, Unspent)
        /\ RLt(Unspent, FromInt(buy_orders[1].current_price))

\* the pass stopped at the first order, and what is left would still pay a
\* unit of a later, cheaper one
C28_Witness ==
    /\ ResolvedInContract
    /\ Len(buy_orders) >= 2
    /\ RLt(RZero, Unspent)
    /\ \E i \in 2..Len(buy_orders) :
          RLe(FromInt(buy_orders[i].current_price), Unspent)

(***************************************************************************)
(* Balance and orders of the decision runs (checked under Spec).           *)
(***************************************************************************)
\* get_balance answered 0 to this run: the fetch failed, or there is no cash
BalanceZero == balance = <<0>>

\* C29: when the balance fetch fails (get_balance gives 0) and the required
\* amount is positive, the run ends as InsufficientFunds in both modes: no
\* allocation is computed and no order is submitted.
C29_FailedBalanceStopsRun ==
    (BalanceZero /\ RequiredAmount(cfg, mode) > 0) =>
        /\ pc = "idle"
        /\ outcome = "InsufficientFunds"
        /\ allocations = <<>>
        /\ buy_orders = <<>>
        /\ submitted = <<>>

\* a dip run with opportunities in hand that got 0 for the balance
C29_Witness ==
    /\ BalanceZero
    /\ mode = "DIP"
    /\ opportunities # <<>>
    /\ cfg.ADVANCED.auto_trade
    /\ pc = "idle"

\* the order of buy_orders that a call of api.buy_order was made for
OrderOf(call) ==
    buy_orders[CHOOSE i \in 1..Len(buy_orders) : buy_orders[i].code = call.code]

\* C30: every order handed to api.buy_order, in a REGULAR or a DIP run, has a
\* whole quantity of at least 1 and a current price above 0, whatever prices
\* the price source returns.
C30_SubmittedOrdersSound ==
    \A i \in 1..Len(submitted) :
        /\ submitted[i].quantity >= 1
        /\ OrderOf(submitted[i]).current_price > 0

====
